---- MODULE Spec2Model ----
(***************************************************************************)
(* Model of the custom load balancer (load_balancer.go): getPodIPs,        *)
(* weightedChoice and the loadBalance HTTP handler.                        *)
(*                                                                         *)
(* Strings are sequences of one-character strings.  Weights are integers   *)
(* in a common unit (the handler's 0.5, 0.3, 0.2 are 5, 3, 2 tenths).      *)
(* rand.Float64() is f / RandGrain for f in 0 .. RandGrain-1, so the draw  *)
(* r = rand.Float64() * total is f * total / RandGrain; comparisons with r *)
(* are done on both sides multiplied by RandGrain, in exact arithmetic.    *)
(***************************************************************************)
EXTENDS Integers, Sequences, FiniteSets, TLC

VARIABLES POD_IPS, reqId, draw, pc, podIPs, selectedPod, resp, body, err,
          w, calls, emitted, selIn, selOut

vars == <<POD_IPS, reqId, draw, pc, podIPs, selectedPod, resp, body, err,
          w, calls, emitted, selIn, selOut>>

handlerVars == <<POD_IPS, reqId, draw, pc, podIPs, selectedPod, resp, body,
                 err, w, calls, emitted>>

selVars == <<selIn, selOut>>

(* ------------------------------ bounds --------------------------------- *)
MaxEnvLen == 5
MaxBodyLen == 2
RandGrain == 6
MaxRequests == 2
MaxChoices == 3
MaxWeight == 2
MaxReconfLen == 2

(* ------------------------------ helpers -------------------------------- *)
SeqUpTo(S, n) == UNION {[1..k -> S] : k \in 0..n}

Range(s) == {s[i] : i \in 1..Len(s)}

EnvChars == {"a", ","}

EnvValues == SeqUpTo(EnvChars, MaxEnvLen)

BodyBytes == {"O", "K"}

Bodies == SeqUpTo(BodyBytes, MaxBodyLen)

Statuses == {200, 404, 500}

StatusOK == 200

StatusInternalServerError == 500

(* strings.Split(s, ","): the pieces of s between commas; a string with n  *)
(* commas gives n+1 pieces, so the empty string gives one empty piece.     *)
RECURSIVE SplitFrom(_, _, _, _)
SplitFrom(s, i, cur, acc) ==
    IF i > Len(s) THEN Append(acc, cur)
    ELSE IF s[i] = "," THEN SplitFrom(s, i + 1, <<>>, Append(acc, cur))
    ELSE SplitFrom(s, i + 1, Append(cur, s[i]), acc)

Split(s) == SplitFrom(s, 1, <<>>, <<>>)

(* getPodIPs: os.Getenv("POD_IPS") (empty when unset) split on commas.     *)
getPodIPs(env) == Split(env)

(* total := 0.0; for _, weight := range weights { total += weight }        *)
RECURSIVE Total(_)
Total(weights) ==
    IF weights = <<>> THEN 0 ELSE weights[1] + Total(Tail(weights))

Fault == [fault |-> TRUE, idx |-> 0, choice |-> <<>>]

Chosen(i, c) == [fault |-> FALSE, idx |-> i, choice |-> c]

(* A plausible slip: the running sum is tested but never advanced          *)
(* (the statement upto += weights[i] is missing).                          *)
RECURSIVE WalkNoAccum(_, _, _, _, _)
WalkNoAccum(choices, weights, rN, i, upto) ==
    IF i > Len(choices)
    THEN IF Len(choices) = 0 THEN Fault
         ELSE Chosen(Len(choices), choices[Len(choices)])
    ELSE IF i > Len(weights) THEN Fault
    ELSE IF (upto + weights[i]) * RandGrain >= rN THEN Chosen(i, choices[i])
    ELSE WalkNoAccum(choices, weights, rN, i + 1, upto)

(* A plausible slip: the weight of the next position is read (weights[i+1] *)
(* in place of weights[i]).                                                *)
RECURSIVE WalkShifted(_, _, _, _, _)
WalkShifted(choices, weights, rN, i, upto) ==
    IF i > Len(choices)
    THEN IF Len(choices) = 0 THEN Fault
         ELSE Chosen(Len(choices), choices[Len(choices)])
    ELSE IF i + 1 > Len(weights) THEN Fault
    ELSE IF (upto + weights[i + 1]) * RandGrain >= rN THEN Chosen(i, choices[i])
    ELSE WalkShifted(choices, weights, rN, i + 1, upto + weights[i + 1])

(* A plausible slip: the comparison is strict (> in place of >=).          *)
RECURSIVE WalkStrict(_, _, _, _, _)
WalkStrict(choices, weights, rN, i, upto) ==
    IF i > Len(choices)
    THEN IF Len(choices) = 0 THEN Fault
         ELSE Chosen(Len(choices), choices[Len(choices)])
    ELSE IF i > Len(weights) THEN Fault
    ELSE IF (upto + weights[i]) * RandGrain > rN THEN Chosen(i, choices[i])
    ELSE WalkStrict(choices, weights, rN, i + 1, upto + weights[i])

(* A plausible slip: the fallback after the loop returns the first address *)
(* (choices[0]) in place of the last.                                      *)
RECURSIVE WalkFallbackFirst(_, _, _, _, _)
WalkFallbackFirst(choices, weights, rN, i, upto) ==
    IF i > Len(choices)
    THEN IF Len(choices) = 0 THEN Fault
         ELSE Chosen(1, choices[1])
    ELSE IF i > Len(weights) THEN Fault
    ELSE IF (upto + weights[i]) * RandGrain >= rN THEN Chosen(i, choices[i])
    ELSE WalkFallbackFirst(choices, weights, rN, i + 1, upto + weights[i])

(* The loop of weightedChoice from position i (1-based) with running sum   *)
(* upto, and the fallback after it.  rN is r * RandGrain.  Indexing        *)
(* weights or choices out of range is a run-time panic (Fault).            *)
RECURSIVE Walk(_, _, _, _, _)
Walk(choices, weights, rN, i, upto) ==
    IF i > Len(choices)
    THEN IF Len(choices) = 0 THEN Fault
         ELSE Chosen(Len(choices), choices[Len(choices)])
    ELSE IF i > Len(weights) THEN Fault
    ELSE IF (upto + weights[i]) * RandGrain >= rN THEN Chosen(i, choices[i])
    ELSE Walk(choices, weights, rN, i + 1, upto + weights[i])

(* rand.Float64() is in [0, 1): the numerators f of f / RandGrain.         *)
randFloat64 == 0..(RandGrain - 1)

(* weightedChoice with the random number f / RandGrain.                    *)
weightedChoice(choices, weights, f) ==
    Walk(choices, weights, f * Total(weights), 1, 0)

(* weights := []float64{0.5, 0.3, 0.2}, in tenths.                         *)
weights == <<5, 3, 2>>

(* ------------------------- the selector alone -------------------------- *)
Addrs == {<<"a">>, <<"b">>, <<"c">>}

NoInput == [choices |-> <<>>, weights |-> <<>>]

NoOutput == [called |-> FALSE, f |-> 0, res |-> Fault]

SelInit ==
    /\ selIn \in [choices : SeqUpTo(Addrs, MaxChoices),
                  weights : SeqUpTo(0..MaxWeight, MaxChoices)]
    /\ selOut = NoOutput

Select ==
    /\ ~selOut.called
    /\ \E f \in randFloat64 :
          selOut' = [called |-> TRUE, f |-> f,
                     res |-> weightedChoice(selIn.choices, selIn.weights, f)]
    /\ UNCHANGED selIn

SelNext == Select /\ UNCHANGED handlerVars

(* --------------------------- response writer --------------------------- *)
NewWriter == [wroteHeader |-> FALSE, status |-> 0, body |-> <<>>]

(* http.ResponseWriter.WriteHeader: the first status code sent stands.     *)
WriteHeader(rw, code) ==
    IF rw.wroteHeader THEN rw
    ELSE [rw EXCEPT !.wroteHeader = TRUE, !.status = code]

(* A plausible slip: only the first byte of the data is sent.              *)
WriteTruncated(rw, data) ==
    LET h == WriteHeader(rw, StatusOK)
    IN  [h EXCEPT !.body = h.body \o (IF data = <<>> THEN <<>> ELSE <<data[1]>>)]

(* http.ResponseWriter.Write: sends status 200 first when no header was    *)
(* written yet, then appends the data to the response body.                *)
Write(rw, data) ==
    LET h == WriteHeader(rw, StatusOK)
    IN  [h EXCEPT !.body = h.body \o data]

(* http.Error: WriteHeader(code), then the message and a newline.          *)
httpError(rw, msg, code) == Write(WriteHeader(rw, code), <<msg, "\n">>)

ReachMsg == "Failed to reach pod"

ReadMsg == "Failed to read response"

NoResp ==
    [present |-> FALSE, status |-> 0, body |-> <<>>, closed |-> FALSE,
     hangs |-> FALSE]

(* ------------------------------ loadBalance ---------------------------- *)
HandlerStart ==
    /\ pc = "getPodIPs"
    /\ draw = 0
    /\ podIPs = <<>>
    /\ selectedPod = <<>>
    /\ resp = NoResp
    /\ body = <<>>
    /\ err = "nil"
    /\ w = NewWriter
    /\ calls = 0
    /\ emitted = 0

Init ==
    /\ POD_IPS \in EnvValues
    /\ reqId = 1
    /\ HandlerStart
    /\ selIn = NoInput
    /\ selOut = NoOutput

(* line 35: podIPs := getPodIPs()                                          *)
GetPodIPs ==
    /\ pc = "getPodIPs"
    /\ podIPs' = getPodIPs(POD_IPS)
    /\ pc' = "weightedChoice"
    /\ UNCHANGED <<POD_IPS, reqId, draw, selectedPod, resp, body, err, w, calls,
                   emitted, selVars>>

(* A plausible slip: the selection reads the environment again, not the    *)
(* list the request read at line 35.                                       *)
WeightedChoiceReread ==
    /\ pc = "weightedChoice"
    /\ \E f \in randFloat64 :
          LET res == weightedChoice(getPodIPs(POD_IPS), weights, f)
          IN  /\ draw' = f
              /\ IF res.fault
                 THEN pc' = "panicked" /\ UNCHANGED selectedPod
                 ELSE pc' = "httpGet" /\ selectedPod' = res.choice
    /\ UNCHANGED <<POD_IPS, reqId, podIPs, resp, body, err, w, calls,
                   emitted, selVars>>

(* lines 36-37: selectedPod := weightedChoice(podIPs, weights); a panic in *)
(* weightedChoice leaves the handler without a response.                   *)
WeightedChoice ==
    /\ pc = "weightedChoice"
    /\ \E f \in randFloat64 :
          LET res == weightedChoice(podIPs, weights, f)
          IN  /\ draw' = f
              /\ IF res.fault
                 THEN pc' = "panicked" /\ UNCHANGED selectedPod
                 ELSE pc' = "httpGet" /\ selectedPod' = res.choice
    /\ UNCHANGED <<POD_IPS, reqId, podIPs, resp, body, err, w, calls,
                   emitted, selVars>>

(* line 38, err != nil: the backend could not be reached.                  *)
HttpGetFail ==
    /\ pc = "httpGet"
    /\ calls' = calls + 1
    /\ err' = "reach"
    /\ pc' = "reachErr"
    /\ UNCHANGED <<POD_IPS, reqId, draw, podIPs, selectedPod, resp, body, w,
                   emitted, selVars>>

(* line 38, err == nil: the backend answered with a status and a body.     *)
(* A URL with an empty host is refused by the HTTP client, so it never     *)
(* gets a response.  A backend may send its headers and then never finish  *)
(* the body (hangs): http.Get uses http.DefaultClient, which has no        *)
(* timeout, so nothing ends the read of such a body.                       *)
HttpGetOk ==
    /\ pc = "httpGet"
    /\ selectedPod # <<>>
    /\ calls' = calls + 1
    /\ \E st \in Statuses, b \in Bodies, h \in BOOLEAN :
          resp' = [present |-> TRUE, status |-> st, body |-> b,
                   closed |-> FALSE, hangs |-> h]
    /\ pc' = "readAll"
    /\ UNCHANGED <<POD_IPS, reqId, draw, podIPs, selectedPod, body, err, w,
                   emitted, selVars>>

(* line 44, err == nil: io.ReadAll returns the whole body.                 *)
ReadAllOk ==
    /\ pc = "readAll"
    /\ ~resp.hangs
    /\ body' = resp.body
    /\ pc' = "write"
    /\ UNCHANGED <<POD_IPS, reqId, draw, podIPs, selectedPod, resp, err, w, calls,
                   emitted, selVars>>

(* line 44, err != nil: io.ReadAll fails after k bytes.                    *)
ReadAllFail ==
    /\ pc = "readAll"
    /\ ~resp.hangs
    /\ \E k \in 0..Len(resp.body) : body' = SubSeq(resp.body, 1, k)
    /\ err' = "read"
    /\ pc' = "readErr"
    /\ UNCHANGED <<POD_IPS, reqId, draw, podIPs, selectedPod, resp, w, calls,
                   emitted, selVars>>

(* A plausible slip: after a failed call the handler selects again.        *)
ReachErrorRetry ==
    /\ pc = "reachErr"
    /\ pc' = "weightedChoice"
    /\ UNCHANGED <<POD_IPS, reqId, draw, podIPs, selectedPod, resp, body, err, w,
                   calls, emitted, selVars>>

(* lines 39-42: http.Error(w, "Failed to reach pod", 500); return          *)
ReachError ==
    /\ pc = "reachErr"
    /\ w' = httpError(w, ReachMsg, StatusInternalServerError)
    /\ emitted' = emitted + 1
    /\ pc' = "returned"
    /\ UNCHANGED <<POD_IPS, reqId, draw, podIPs, selectedPod, resp, body, err,
                   calls, selVars>>

(* A plausible slip: the return after http.Error is missing, so the        *)
(* handler goes on to line 49.                                             *)
ReadErrorNoReturn ==
    /\ pc = "readErr"
    /\ w' = httpError(w, ReadMsg, StatusInternalServerError)
    /\ emitted' = emitted + 1
    /\ pc' = "write"
    /\ UNCHANGED <<POD_IPS, reqId, draw, podIPs, selectedPod, resp, body, err,
                   calls, selVars>>

(* A plausible slip: the bytes read before the failure are sent ahead of   *)
(* the error.                                                              *)
ReadErrorLeak ==
    /\ pc = "readErr"
    /\ w' = httpError(Write(w, body), ReadMsg, StatusInternalServerError)
    /\ emitted' = emitted + 1
    /\ resp' = [resp EXCEPT !.closed = TRUE]
    /\ pc' = "returned"
    /\ UNCHANGED <<POD_IPS, reqId, draw, podIPs, selectedPod, body, err, calls,
                   selVars>>

(* A plausible slip: the body is closed at the end of the success path     *)
(* only (no defer), so the early return leaves it open.                    *)
ReadErrorNoClose ==
    /\ pc = "readErr"
    /\ w' = httpError(w, ReadMsg, StatusInternalServerError)
    /\ emitted' = emitted + 1
    /\ pc' = "returned"
    /\ UNCHANGED <<POD_IPS, reqId, draw, podIPs, selectedPod, resp, body, err,
                   calls, selVars>>

(* lines 45-48: http.Error(w, "Failed to read response", 500); return,     *)
(* then the deferred resp.Body.Close() of line 43.                         *)
ReadError ==
    /\ pc = "readErr"
    /\ w' = httpError(w, ReadMsg, StatusInternalServerError)
    /\ emitted' = emitted + 1
    /\ resp' = [resp EXCEPT !.closed = TRUE]
    /\ pc' = "returned"
    /\ UNCHANGED <<POD_IPS, reqId, draw, podIPs, selectedPod, body, err, calls,
                   selVars>>

(* lines 49-50: w.Write(body), then the deferred resp.Body.Close().        *)
WriteBody ==
    /\ pc = "write"
    /\ w' = Write(w, body)
    /\ emitted' = emitted + 1
    /\ resp' = [resp EXCEPT !.closed = TRUE]
    /\ pc' = "returned"
    /\ UNCHANGED <<POD_IPS, reqId, draw, podIPs, selectedPod, body, err, calls,
                   selVars>>

(* http.HandleFunc("/", loadBalance): the next request enters the handler  *)
(* with fresh locals and a fresh response writer.                          *)
NextRequest ==
    /\ pc \in {"returned", "panicked"}
    /\ reqId < MaxRequests
    /\ reqId' = reqId + 1
    /\ pc' = "getPodIPs"
    /\ draw' = 0
    /\ podIPs' = <<>>
    /\ selectedPod' = <<>>
    /\ resp' = NoResp
    /\ body' = <<>>
    /\ err' = "nil"
    /\ w' = NewWriter
    /\ calls' = 0
    /\ emitted' = 0
    /\ UNCHANGED <<POD_IPS, selVars>>

Next ==
    \/ GetPodIPs
    \/ WeightedChoice
    \/ HttpGetFail
    \/ HttpGetOk
    \/ ReadAllOk
    \/ ReadAllFail
    \/ ReachError
    \/ ReadError
    \/ WriteBody
    \/ NextRequest

Spec == Init /\ [][Next]_vars

(* The handler's goroutine keeps running, and a backend that does not hang *)
(* delivers its body or fails: every step that is possible is eventually   *)
(* taken.                                                                  *)
Fairness ==
    /\ WF_vars(GetPodIPs)
    /\ WF_vars(WeightedChoice)
    /\ WF_vars(HttpGetFail \/ HttpGetOk)
    /\ WF_vars(ReadAllOk \/ ReadAllFail)
    /\ WF_vars(ReachError)
    /\ WF_vars(ReadError)
    /\ WF_vars(WriteBody)

SpecLive == Init /\ [][Next]_vars /\ Fairness

(* Reconfiguration: the value of POD_IPS is replaced as a whole while the  *)
(* handler runs (the registry's Replace).                                  *)
ReconfValues == SeqUpTo(EnvChars, MaxReconfLen)

Setenv ==
    /\ \E v \in ReconfValues : v # POD_IPS /\ POD_IPS' = v
    /\ UNCHANGED <<reqId, draw, pc, podIPs, selectedPod, resp, body, err, w,
                   calls, emitted, selVars>>

ReconfInit == Init /\ POD_IPS \in ReconfValues

ReconfNext == Next \/ Setenv

SpecReconf == ReconfInit /\ [][ReconfNext]_vars

SelSpecInit ==
    /\ SelInit
    /\ POD_IPS = <<>>
    /\ reqId = 1
    /\ HandlerStart

SpecSel == SelSpecInit /\ [][SelNext]_vars

(* ------------------------------- claims -------------------------------- *)

(* The inputs the selector's contract covers: as many weights as           *)
(* addresses, at least one address, weights >= 0 with a positive sum.      *)
WellFormedInput ==
    /\ Len(selIn.choices) >= 1
    /\ Len(selIn.weights) = Len(selIn.choices)
    /\ Total(selIn.weights) > 0

(* C1: for a non-empty address list with as many weights, all >= 0 and a   *)
(* positive sum, and any draw in [0, total), weightedChoice returns one of *)
(* the listed addresses and does not fault.                                *)
C1_Totality ==
    (selOut.called /\ WellFormedInput) =>
        /\ ~selOut.res.fault
        /\ selOut.res.choice \in Range(selIn.choices)

C1_Witness ==
    /\ selOut.called
    /\ WellFormedInput
    /\ Len(selIn.choices) = MaxChoices
    /\ ~selOut.res.fault
    /\ selOut.res.idx = MaxChoices

(* C2: with an empty address list, or weights that are all zero,           *)
(* weightedChoice yields "no backend available": it neither faults nor     *)
(* returns an address as chosen.                                           *)
C2_EmptySetSafety ==
    (selOut.called /\ (selIn.choices = <<>> \/ Total(selIn.weights) = 0)) =>
        /\ ~selOut.res.fault
        /\ selOut.res.idx = 0

(* C10: for weights >= 0 with a positive sum and any draw in [0, total),   *)
(* the address weightedChoice returns never has weight 0.                  *)
C10_ZeroWeightNeverSelected ==
    (selOut.called /\ WellFormedInput /\ ~selOut.res.fault) =>
        selIn.weights[selOut.res.idx] > 0

(* C3: whatever the number of addresses paired with the three weights,     *)
(* the handler never panics in weightedChoice, and the selected pod is one *)
(* of the listed addresses.                                                *)
C3_MismatchSafe ==
    /\ pc # "panicked"
    /\ pc \notin {"getPodIPs", "weightedChoice"} =>
          selectedPod \in Range(podIPs)

C3_Witness ==
    /\ Len(podIPs) > Len(weights)
    /\ pc = "httpGet"

(* C4: when no backend is configured (POD_IPS empty or unset, or no        *)
(* positive weight), the handler makes no outbound call and answers with a *)
(* synthesized failure.                                                    *)
C4_NoBackendNoOutboundCall ==
    (POD_IPS = <<>> \/ Total(weights) <= 0) =>
        /\ calls = 0
        /\ pc = "returned" => w.status >= 500

(* The state of the per-request state machine at each handler position.    *)
Phase ==
    CASE pc = "getPodIPs" -> "Received"
      [] pc = "weightedChoice" -> "Selecting"
      [] pc \in {"httpGet", "readAll"} -> "Forwarding"
      [] pc \in {"reachErr", "readErr"} -> "ForwardFailed"
      [] pc = "write" -> "ForwardSucceeded"
      [] pc = "returned" -> "Responded"
      [] OTHER -> "Faulted"

PhaseEdges ==
    {<<"Received", "Selecting">>,
     <<"Selecting", "SelectionFailed">>, <<"Selecting", "Forwarding">>,
     <<"SelectionFailed", "Responded">>,
     <<"Forwarding", "ForwardFailed">>, <<"Forwarding", "ForwardSucceeded">>,
     <<"ForwardFailed", "Responded">>, <<"ForwardSucceeded", "Responded">>}

(* C5: a request moves only along Received -> Selecting ->                 *)
(* {SelectionFailed | Forwarding} -> {ForwardFailed | ForwardSucceeded} -> *)
(* Responded, never emits two responses, and has emitted exactly one when  *)
(* it is Responded.                                                        *)
C5_StateMachine ==
    [][/\ reqId' = reqId =>
            (Phase' = Phase \/ <<Phase, Phase'>> \in PhaseEdges)
       /\ emitted' <= 1
       /\ Phase' = "Responded" => emitted' = 1]_vars

C5_Witness ==
    /\ pc = "returned"
    /\ err = "read"
    /\ emitted = 1

(* C6: a request makes at most one outbound call, exactly one once a       *)
(* backend was selected and the call was made; after a connection or read  *)
(* failure it selects no more and calls no more.                           *)
C6_SingleShot ==
    [][/\ calls' <= 1
       /\ pc' \in {"readAll", "reachErr", "readErr", "write", "returned"} =>
             calls' = 1
       /\ (err # "nil" /\ reqId' = reqId) =>
             /\ calls' = calls
             /\ selectedPod' = selectedPod
             /\ pc' \notin {"getPodIPs", "weightedChoice", "httpGet"}]_vars

C6_Witness ==
    /\ pc = "returned"
    /\ err = "reach"
    /\ calls = 1

(* C7: a failed connection gives the caller a 5xx response, a failed body  *)
(* read gives a 5xx response with a different body, no panic follows a     *)
(* failure, and no byte of the backend's body reaches the caller.          *)
C7_FailureMapping ==
    /\ (pc = "returned" /\ err = "reach") =>
          /\ w.status \in 500..599
          /\ w.body = <<ReachMsg, "\n">>
    /\ (pc = "returned" /\ err = "read") =>
          /\ w.status \in 500..599
          /\ w.body = <<ReadMsg, "\n">>
          /\ w.body # <<ReachMsg, "\n">>
    /\ err # "nil" =>
          /\ pc # "panicked"
          /\ Range(w.body) \cap BodyBytes = {}

C7_Witness ==
    /\ pc = "returned"
    /\ err = "read"
    /\ body # <<>>

(* C8: when the backend was reached and its body read in full, the caller  *)
(* gets exactly the backend's body; for status 200 and body "OK" the       *)
(* caller gets status 200 and body "OK".                                   *)
C8_BodyRelayed ==
    (pc = "returned" /\ err = "nil") =>
        /\ w.body = resp.body
        /\ (resp.status = 200 /\ resp.body = <<"O", "K">>) =>
              (w.status = 200 /\ w.body = <<"O", "K">>)

C8_Witness ==
    /\ pc = "returned"
    /\ err = "nil"
    /\ resp.status = 200
    /\ resp.body = <<"O", "K">>
    /\ w.body = <<"O", "K">>

(* C9: for a backend response that was fully read, the status returned to  *)
(* the caller equals the backend's status.                                 *)
C9_StatusRelayed ==
    (pc = "returned" /\ err = "nil") => w.status = resp.status

(* C11: every request is answered: once the outbound call has returned a   *)
(* response, the request reaches Responded, also when the backend never    *)
(* completes its body.                                                     *)
C11_AnsweredInBoundedTime == (pc = "readAll") ~> (pc = "returned")

(* C12: under replacement of POD_IPS a request reads the configuration     *)
(* once, as one whole value (line 35); the list it read stays as it is for *)
(* the rest of the request, and the pod it selects is an address of that   *)
(* list, paired with the one weight list.                                  *)
C12_ConsistentSnapshot ==
    [][reqId' = reqId =>
          /\ (pc = "getPodIPs" /\ pc' # pc) => podIPs' = getPodIPs(POD_IPS)
          /\ pc # "getPodIPs" => podIPs' = podIPs
          /\ (pc = "weightedChoice" /\ pc' = "httpGet") =>
                selectedPod' \in Range(podIPs)
          /\ pc \notin {"getPodIPs", "weightedChoice"} =>
                selectedPod' = selectedPod]_vars

C12_Witness ==
    /\ pc = "returned"
    /\ podIPs # getPodIPs(POD_IPS)
    /\ selectedPod \notin Range(getPodIPs(POD_IPS))
    /\ selectedPod \in Range(podIPs)

(* The draws f / RandGrain for which the selector returns position i.      *)
DrawsFor(i) ==
    {f \in randFloat64 :
        LET res == weightedChoice(selIn.choices, selIn.weights, f)
        IN  ~res.fault /\ res.idx = i}

(* C13: with total T > 0 and the draw taking RandGrain equally likely      *)
(* values, the number of values for which backend i is returned is         *)
(* RandGrain * wi / T up to one value (the boundary of its interval).      *)
C13_DistributionLaw ==
    (selOut.called /\ WellFormedInput) =>
        \A i \in 1..Len(selIn.choices) :
            LET n == Cardinality(DrawsFor(i))
                T == Total(selIn.weights)
            IN  /\ n * T >= RandGrain * selIn.weights[i] - T
                /\ n * T <= RandGrain * selIn.weights[i] + T

C13_Witness ==
    /\ selOut.called
    /\ WellFormedInput
    /\ Len(selIn.choices) = MaxChoices
    /\ \A i \in 1..Len(selIn.weights) : selIn.weights[i] > 0
    /\ \A i \in 1..Len(selIn.choices) : DrawsFor(i) # {}
    /\ selOut.f \in DrawsFor(2)

(* The sum of the weights up to and including position i.                  *)
Cumulative(i) == Total(SubSeq(selIn.weights, 1, i))

(* The positions whose cumulative weight is >= the draw r.                 *)
Reaching ==
    {i \in 1..Len(selIn.weights) :
        Cumulative(i) * RandGrain >= selOut.f * Total(selIn.weights)}

(* C14: for a non-empty address list with as many weights, weightedChoice  *)
(* returns the first address whose cumulative weight is >= r; with weights *)
(* [1,1] a draw of exactly 1 returns the first address and a draw above 1  *)
(* returns the second.                                                     *)
C14_SelectionRule ==
    (selOut.called /\ Len(selIn.choices) >= 1
       /\ Len(selIn.weights) = Len(selIn.choices)) =>
        /\ ~selOut.res.fault
        /\ selOut.res.idx \in Reaching
        /\ \A j \in Reaching : selOut.res.idx <= j
        /\ selOut.res.choice = selIn.choices[selOut.res.idx]
        /\ selIn.weights = <<1, 1>> =>
              /\ selOut.f * 2 = RandGrain => selOut.res.idx = 1
              /\ selOut.f * 2 > RandGrain => selOut.res.idx = 2

C14_Witness ==
    /\ selOut.called
    /\ WellFormedInput
    /\ selOut.f > 0
    /\ selOut.res.idx < Len(selIn.choices)
    /\ selIn.weights[selOut.res.idx + 1] > 0
    /\ Cumulative(selOut.res.idx) * RandGrain = selOut.f * Total(selIn.weights)

(* C15: when the handler has finished, a response the outbound call        *)
(* returned has its body closed, after a successful read and after a       *)
(* failed one; after a connection failure there is no response at all.     *)
C15_BodyClosed ==
    pc = "returned" =>
        /\ resp.present => resp.closed
        /\ err = "reach" => ~resp.present
        /\ err \in {"nil", "read"} => (resp.present /\ resp.closed)

C15_Witness ==
    /\ pc = "returned"
    /\ err = "read"
    /\ resp.present
    /\ resp.closed

(* The position weightedChoice returned for the request's draw.            *)
selectedIdx == weightedChoice(podIPs, weights, draw).idx

(* C16: with more addresses than weights, every draw ends the walk at one  *)
(* of the first three positions, so the selected pod is always one of the  *)
(* first three addresses.                                                  *)
C16_OnlyFirstThree ==
    Len(podIPs) > Len(weights) =>
        /\ \A f \in randFloat64 :
              LET res == weightedChoice(podIPs, weights, f)
              IN  ~res.fault /\ res.idx <= Len(weights)
        /\ pc \notin {"getPodIPs", "weightedChoice"} =>
              /\ selectedIdx \in 1..Len(weights)
              /\ selectedPod = podIPs[selectedIdx]

C16_Witness ==
    /\ Len(podIPs) > Len(weights)
    /\ pc = "returned"
    /\ selectedIdx = Len(weights)
    /\ podIPs[Len(podIPs)] \notin Range(SubSeq(podIPs, 1, Len(weights)))

(* The sum of the handler's weights up to and including position k.        *)
weightUpTo(k) == Total(SubSeq(weights, 1, k))

(* C17: with k = 1 or 2 addresses against the three weights, the last      *)
(* address is selected for every draw above the cumulative weight of the k *)
(* listed positions; a single address (also the empty one of an unset      *)
(* POD_IPS) is selected for every draw.                                    *)
C17_LastAbsorbs ==
    (Len(podIPs) \in 1..(Len(weights) - 1)
       /\ pc \notin {"getPodIPs", "weightedChoice", "panicked"}) =>
        /\ draw * Total(weights) > weightUpTo(Len(podIPs)) * RandGrain =>
              (selectedIdx = Len(podIPs) /\ selectedPod = podIPs[Len(podIPs)])
        /\ Len(podIPs) = 1 => selectedPod = podIPs[1]
        /\ POD_IPS = <<>> => selectedPod = <<>>

C17_Witness ==
    /\ Len(podIPs) = 2
    /\ pc = "returned"
    /\ draw * Total(weights) > weightUpTo(2) * RandGrain
    /\ selectedPod = podIPs[2]
    /\ podIPs[2] # podIPs[1]

====
